---- MODULE Spec2Model ----
(***************************************************************************)
(* Habit streak tracker (src/streak.py): the record store kept in the      *)
(* `habits` dict, the spreadsheet rows it is loaded from and saved to,     *)
(* the streak calculation and the month projection of display_calendar,    *)
(* and the script `app`, which Streamlit runs from its first line to its   *)
(* last on every user interaction.                                         *)
(***************************************************************************)
EXTENDS Integers, Sequences, FiniteSets, TLC

VARIABLES
  sheet,          \* the worksheet: a sequence of rows, each <<Date, Habit, Completed>>
  habits,         \* app's dict `habits`: insertion-ordered sequence of [k, v] items
  today,          \* date.today()
  pc,             \* position of the running script (or of the function under study)
  event,          \* the interaction that started the current script run
  connected,      \* get_connection() returned a worksheet in this run (not None)
  clicked_key,    \* key <<habit, month, year, day>> of the day button pressed, else <<>>
  new_habit,      \* value of the "Habit Name" text input
  checked,        \* habits whose "Mark as done" checkbox is ticked (widget state)
  selected_month, \* <<month_num, year>> chosen in the two selectors
  selected_habit, \* value of the "Select Habit" selectbox ("" before any choice)
  data_dict,      \* display_calendar's day -> completed mapping of the last render
  load_error,     \* load_data_db called st.error in this run
  save_error,     \* save_data_db called st.error in the run before this point
  last_run_habits,\* history: `habits` as the previous script run left it
  interactions,   \* history: how many interactions the session has had
  records,        \* argument of calculate_streak when studied on its own
  streak,         \* its result
  loaded          \* result of load_data_db when the gateway is studied on its own

vars == <<sheet, habits, today, pc, event, connected, clicked_key, new_habit,
          checked, selected_month, selected_habit, data_dict, load_error,
          save_error, last_run_habits, interactions, records, streak, loaded>>

widgetVars == <<event, connected, clicked_key, new_habit, checked, selected_month,
                selected_habit, data_dict, last_run_habits, interactions>>

appVars == <<sheet, habits, widgetVars, load_error, save_error>>

pureVars == <<records, streak, loaded>>

----------------------------------------------------------------------------
(* Bounds of the model *)

\* longest entry list given to calculate_streak on its own
MaxLen == 3
\* most data rows in the worksheet a session starts from
MaxRows == 2
\* most interactions (clicks, selections) of one session
MaxInteractions == 2
\* longest worksheet the failing-read path of initialize_sheet may grow
MaxSheet == 3
\* most data rows / entries in the gateway round trip studied on its own
MaxStore == 2

----------------------------------------------------------------------------
(* Calendar dates: datetime.date as [year, month, day] *)

MkDate(y, m, d) == [year |-> y, month |-> m, day |-> d]

IsLeap(y) == (y % 4 = 0) /\ ((y % 100 # 0) \/ (y % 400 = 0))

\* calendar.monthrange(year, month_num)[1]
get_days_in_month(month_num, year) ==
  IF month_num = 2 THEN (IF IsLeap(year) THEN 29 ELSE 28)
  ELSE IF month_num \in {4, 6, 9, 11} THEN 30 ELSE 31

\* d - timedelta(days=1)
PrevDay(d) ==
  IF d.day > 1 THEN MkDate(d.year, d.month, d.day - 1)
  ELSE IF d.month > 1
       THEN MkDate(d.year, d.month - 1, get_days_in_month(d.month - 1, d.year))
       ELSE MkDate(d.year - 1, 12, 31)

\* d + timedelta(days=1)
NextDay(d) ==
  IF d.day < get_days_in_month(d.month, d.year)
  THEN MkDate(d.year, d.month, d.day + 1)
  ELSE IF d.month < 12 THEN MkDate(d.year, d.month + 1, 1)
       ELSE MkDate(d.year + 1, 1, 1)

RECURSIVE MinusDays(_, _)
\* d - timedelta(days=n)
MinusDays(d, n) == IF n = 0 THEN d ELSE MinusDays(PrevDay(d), n - 1)

\* date.__lt__
DateLT(a, b) ==
  \/ a.year < b.year
  \/ a.year = b.year /\ a.month < b.month
  \/ a.year = b.year /\ a.month = b.month /\ a.day < b.day

----------------------------------------------------------------------------
(* Date text: a string is modelled as the sequence of its characters *)

DigitChars == <<"0", "1", "2", "3", "4", "5", "6", "7", "8", "9">>

IsDigit(c) == \E i \in 1..10 : DigitChars[i] = c

DigitVal(c) == (CHOOSE i \in 1..10 : DigitChars[i] = c) - 1

RECURSIVE DecDigits(_)
\* the decimal digits of n, without padding
DecDigits(n) ==
  IF n < 10 THEN <<DigitChars[n + 1]>>
  ELSE DecDigits(n \div 10) \o <<DigitChars[(n % 10) + 1]>>

\* %d and %m of strftime: two digits, zero padded
Pad2(n) == <<DigitChars[(n \div 10) + 1], DigitChars[(n % 10) + 1]>>

\* date_obj.strftime('%d/%m/%Y')
strftime(d) == Pad2(d.day) \o <<"/">> \o Pad2(d.month) \o <<"/">> \o DecDigits(d.year)

RECURSIVE NumVal(_)
NumVal(t) ==
  IF t = <<>> THEN 0 ELSE 10 * NumVal(SubSeq(t, 1, Len(t) - 1)) + DigitVal(t[Len(t)])

AllDigits(t) == \A i \in 1..Len(t) : IsDigit(t[i])

\* %d of strptime: 3[0-1] | [1-2]\d | 0[1-9] | [1-9] | " "[1-9]
DayText(t) ==
  \/ Len(t) = 2 /\ AllDigits(t) /\ NumVal(t) \in 1..31
  \/ Len(t) = 1 /\ AllDigits(t) /\ NumVal(t) \in 1..9
  \/ Len(t) = 2 /\ t[1] = " " /\ IsDigit(t[2]) /\ DigitVal(t[2]) \in 1..9

DayVal(t) == IF t[1] = " " THEN DigitVal(t[2]) ELSE NumVal(t)

\* %m of strptime: 1[0-2] | 0[1-9] | [1-9]
MonthText(t) ==
  \/ Len(t) = 2 /\ AllDigits(t) /\ NumVal(t) \in 1..12
  \/ Len(t) = 1 /\ AllDigits(t) /\ NumVal(t) \in 1..9

\* %Y of strptime: \d\d\d\d
YearText(t) == Len(t) = 4 /\ AllDigits(t)

\* the value that stands for strptime raising ValueError
NoDate == MkDate(0, 0, 0)

\* datetime.strptime(s, '%d/%m/%Y').date(), or NoDate when it raises
strptime(s) ==
  LET slashes == {i \in 1..Len(s) : s[i] = "/"} IN
  IF Cardinality(slashes) # 2 THEN NoDate
  ELSE
    LET p1 == CHOOSE i \in slashes : \A j \in slashes : i <= j
        p2 == CHOOSE i \in slashes : \A j \in slashes : j <= i
        dt == SubSeq(s, 1, p1 - 1)
        mt == SubSeq(s, p1 + 1, p2 - 1)
        yt == SubSeq(s, p2 + 1, Len(s))
    IN IF DayText(dt) /\ MonthText(mt) /\ YearText(yt)
       THEN LET y == NumVal(yt)
                m == NumVal(mt)
                d == DayVal(dt)
            IN IF y >= 1 /\ d <= get_days_in_month(m, y) THEN MkDate(y, m, d) ELSE NoDate
       ELSE NoDate

----------------------------------------------------------------------------
(* Python's dict, insertion ordered: a sequence of items [k |-> key, v |-> value] *)

Keys(d) == {d[i].k : i \in 1..Len(d)}

Has(d, key) == key \in Keys(d)

Get(d, key) == d[CHOOSE i \in 1..Len(d) : d[i].k = key].v

\* d[key] = value
Put(d, key, value) ==
  IF Has(d, key)
  THEN [i \in 1..Len(d) |-> IF d[i].k = key THEN [k |-> key, v |-> value] ELSE d[i]]
  ELSE Append(d, [k |-> key, v |-> value])

\* the entries of a list, as a set
Entries(recs) == {recs[i] : i \in 1..Len(recs)}

----------------------------------------------------------------------------
(* calculate_streak *)

RECURSIVE InsertDesc(_, _)
\* insert e after every element whose date is >= e's: a stable descending sort
InsertDesc(sorted, e) ==
  IF sorted = <<>> THEN <<e>>
  ELSE IF DateLT(Head(sorted)[1], e[1]) THEN <<e>> \o sorted
       ELSE <<Head(sorted)>> \o InsertDesc(Tail(sorted), e)

RECURSIVE SortDesc(_)
\* sorted(records, key=lambda x: x[0], reverse=True)
SortDesc(recs) ==
  IF recs = <<>> THEN <<>>
  ELSE InsertDesc(SortDesc(SubSeq(recs, 1, Len(recs) - 1)), recs[Len(recs)])

RECURSIVE StreakLoop(_, _, _, _)
\* the for loop of calculate_streak from position i with the count so far
StreakLoop(sorted_records, i, n, day) ==
  IF i > Len(sorted_records) THEN n
  ELSE LET dt == sorted_records[i][1]
           completed == sorted_records[i][2]
       IN IF completed /\ dt = MinusDays(day, n)
          THEN StreakLoop(sorted_records, i + 1, n + 1, day)
          ELSE n

\* a count that takes a not completed day as part of the run
calculate_streak_counting_misses(recs, day) ==
  LET sorted_records == SortDesc(recs)
      run == {n \in 0..Len(recs) :
                \A i \in 1..n : sorted_records[i][1] = MinusDays(day, i - 1)}
  IN CHOOSE n \in run : \A m \in run : m <= n

\* calculate_streak(records), with date.today() passed as `day`
calculate_streak(recs, day) == StreakLoop(SortDesc(recs), 1, 0, day)

----------------------------------------------------------------------------
(* The worksheet and the persistence functions *)

\* the header row ["Date", "Habit", "Completed"]; the Date cell is text
Header == <<<<"D", "a", "t", "e">>, "Habit", "Completed">>

\* sheet.get_all_records(): the rows under the first one, keyed by its cells
get_all_records(sh) == IF Len(sh) <= 1 THEN <<>> ELSE Tail(sh)

\* initialize_sheet(sheet); read_fails: its get_all_records() raises
initialize_sheet(sh, read_fails) ==
  IF read_fails THEN Append(sh, Header)
  ELSE IF get_all_records(sh) = <<>> THEN Append(sh, Header) ELSE sh

\* habits[habit].append((date_obj, completed)), after the `not in` test
AppendEntry(d, habit, entry) ==
  Put(d, habit, Append(IF Has(d, habit) THEN Get(d, habit) ELSE <<>>, entry))

RECURSIVE LoadLoop(_, _, _)
\* the for loop of load_data_db from record i; raised: strptime raised
LoadLoop(recs, i, acc) ==
  IF i > Len(recs) THEN [raised |-> FALSE, habits |-> acc]
  ELSE LET habit == recs[i][2] IN
       IF habit = "" THEN LoadLoop(recs, i + 1, acc)
       ELSE LET date_obj == strptime(recs[i][1])
                completed == (recs[i][3] = "True")
            IN IF date_obj = NoDate THEN [raised |-> TRUE, habits |-> <<>>]
               ELSE LoadLoop(recs, i + 1, AppendEntry(acc, habit, <<date_obj, completed>>))

\* what the gateway does during one load_data_db
\*   no_connection:   get_connection() returned None
\*   init_read_fails: get_all_records() raises in initialize_sheet, whose
\*                    except branch appends the header
\*   init_fails:      so does the append_row of that except branch
\*   read_fails:      get_all_records() raises in load_data_db itself
LoadOutcomes == {"ok", "no_connection", "init_read_fails", "init_fails", "read_fails"}

\* load_data_db(sheet): the dict returned, the worksheet afterwards, and
\* whether st.error was called
load_data_db(sh, outcome) ==
  IF outcome \in {"no_connection", "init_fails"}
  THEN [habits |-> <<>>, sheet |-> sh, error |-> TRUE]
  ELSE LET sh1 == initialize_sheet(sh, outcome = "init_read_fails") IN
       IF outcome = "read_fails"
       THEN [habits |-> <<>>, sheet |-> sh1, error |-> TRUE]
       ELSE LET r == LoadLoop(get_all_records(sh1), 1, <<>>)
            IN [habits |-> r.habits, sheet |-> sh1, error |-> r.raised]

\* the row written for one entry
RowOf(habit, entry) ==
  <<strftime(entry[1]), habit, IF entry[2] THEN "True" ELSE "False">>

RECURSIVE AllRows(_)
\* the rows of the two nested loops of save_data_db, in the order written
AllRows(d) ==
  IF d = <<>> THEN <<>>
  ELSE [i \in 1..Len(Head(d).v) |-> RowOf(Head(d).k, Head(d).v[i])] \o AllRows(Tail(d))

\* the gateway calls save_data_db makes: clear, the header, one per entry
SaveCalls(d) == 2 + Len(AllRows(d))

\* save_data_db(sheet, habits) when the first n gateway calls succeed and
\* call n + 1 raises (n = SaveCalls(d): none raises)
save_data_db(sh, d, n) ==
  [sheet |-> IF n = 0 THEN sh ELSE SubSeq(<<Header>> \o AllRows(d), 1, n - 1),
   error |-> n < SaveCalls(d)]

----------------------------------------------------------------------------
(* calculate_streak on its own: every entry list over the days around today *)

\* the dates date.today() is drawn from: after a leap day, after 28 February
\* of a common year, and on New Year's Day
Todays == {MkDate(2024, 3, 2), MkDate(2023, 3, 1), MkDate(2024, 1, 1)}

\* the three days before `day`, `day`, and the day after it
DateWindow(day) ==
  {MinusDays(day, 3), MinusDays(day, 2), PrevDay(day), day, NextDay(day)}

BoundedSeq(S, n) == UNION {[1..k -> S] : k \in 0..n}

\* no widget has been rendered
WidgetsUnused ==
  /\ event = "none" /\ connected = TRUE /\ clicked_key = <<>>
  /\ last_run_habits = <<>> /\ interactions = 0
  /\ new_habit = "" /\ checked = {} /\ selected_month = <<0, 0>>
  /\ selected_habit = "" /\ data_dict = <<>>
  /\ load_error = FALSE /\ save_error = FALSE

AppUnused == sheet = <<>> /\ habits = <<>> /\ WidgetsUnused

InitStreak ==
  /\ AppUnused
  /\ today \in Todays
  /\ records \in BoundedSeq(DateWindow(today) \X BOOLEAN, MaxLen)
  /\ streak = 0
  /\ loaded = <<>>
  /\ pc = "streak_input"

CalculateStreak ==
  /\ pc = "streak_input"
  /\ streak' = calculate_streak(records, today)
  /\ pc' = "streak_done"
  /\ UNCHANGED <<appVars, today, records, loaded>>

NextStreak == CalculateStreak

SpecStreak == InitStreak /\ [][NextStreak]_vars

UniqueDates(recs) ==
  \A i, j \in 1..Len(recs) : recs[i][1] = recs[j][1] => i = j

NoFuture(recs, day) == \A i \in 1..Len(recs) : ~DateLT(day, recs[i][1])

CompletedOn(recs, d) == <<d, TRUE>> \in Entries(recs)

\* the length of the maximal run of completed days that ends at `day`
RunLength(recs, day) ==
  CHOOSE n \in 0..Len(recs) :
    /\ \A i \in 0..(n - 1) : CompletedOn(recs, MinusDays(day, i))
    /\ ~CompletedOn(recs, MinusDays(day, n))

\* C1: for an entry list with at most one entry per date and none dated after
\* today, calculate_streak returns the length of the maximal run of completed
\* days going backward from today; 0 for the empty list, for a today without
\* entry and for a today marked not completed.
C1_StreakIsMaximalRun ==
  (pc = "streak_done" /\ UniqueDates(records) /\ NoFuture(records, today)) =>
    /\ streak = RunLength(records, today)
    /\ records = <<>> => streak = 0
    /\ ~CompletedOn(records, today) => streak = 0
    /\ \A n \in 0..Len(records) :
         ( /\ \A i \in 0..n : CompletedOn(records, MinusDays(today, i))
           /\ ~CompletedOn(records, MinusDays(today, n + 1)) ) => streak = n + 1

\* today and yesterday completed, the day before marked not completed: streak 2
C1_Witness ==
  /\ pc = "streak_done" /\ UniqueDates(records) /\ NoFuture(records, today)
  /\ CompletedOn(records, today) /\ CompletedOn(records, PrevDay(today))
  /\ <<MinusDays(today, 2), FALSE>> \in Entries(records)
  /\ streak = 2

\* C2: entries dated after today are ignored: calculate_streak returns what it
\* returns on the list without them.
C2_FutureEntriesIgnored ==
  pc = "streak_done" =>
    streak = calculate_streak(
               SelectSeq(records, LAMBDA e : ~DateLT(today, e[1])), today)

----------------------------------------------------------------------------
(* save_data_db and load_data_db on their own: rows to a store, and a store
   to rows and back *)

Names == {"Read", "Run"}

GatewayDates == {MkDate(2024, 2, 29), MkDate(2024, 3, 1)}

\* Date cells: the texts save_data_db writes, an unpadded date strptime
\* accepts, a day the month does not have, another format, an empty cell
DateTexts ==
  {strftime(d) : d \in GatewayDates} \cup
  { <<"1", "/", "3", "/", "2", "0", "2", "4">>,
    <<"3", "1", "/", "0", "2", "/", "2", "0", "2", "4">>,
    <<"2", "0", "2", "4", "-", "0", "3", "-", "0", "1">>,
    <<>> }

GatewayRows == DateTexts \X (Names \cup {""}) \X {"True", "False", ""}

\* the entry lists with at most one entry per date
EntryLists(dates, n) ==
  {l \in BoundedSeq(dates \X BOOLEAN, n) :
     \A i, j \in 1..Len(l) : l[i][1] = l[j][1] => i = j}

\* the dicts over Names whose values are such lists
Stores(dates, n) ==
  {d \in BoundedSeq([k : Names, v : EntryLists(dates, n)], Cardinality(Names)) :
     \A i, j \in 1..Len(d) : d[i].k = d[j].k => i = j}

InitGateway ==
  /\ WidgetsUnused
  /\ today = MkDate(2024, 3, 2)
  /\ records = <<>> /\ streak = 0 /\ loaded = <<>>
  /\ \/ /\ pc = "gw_rows"
        /\ habits = <<>>
        /\ \E rows \in BoundedSeq(GatewayRows, MaxStore) : sheet = <<Header>> \o rows
     \/ /\ pc = "gw_store"
        /\ habits \in Stores(GatewayDates, MaxStore)
        /\ sheet = <<>>

\* save_data_db(sheet, habits), every gateway call succeeding
GatewaySave ==
  /\ pc = "gw_store"
  /\ LET r == save_data_db(sheet, habits, SaveCalls(habits))
     IN sheet' = r.sheet /\ save_error' = r.error
  /\ pc' = "gw_saved"
  /\ UNCHANGED <<habits, today, widgetVars, load_error, pureVars>>

\* load_data_db(sheet), every gateway call succeeding
GatewayLoad ==
  /\ pc \in {"gw_rows", "gw_saved"}
  /\ LET r == load_data_db(sheet, "ok")
     IN loaded' = r.habits /\ sheet' = r.sheet /\ load_error' = r.error
  /\ pc' = IF pc = "gw_rows" THEN "gw_rows_loaded" ELSE "gw_loaded_back"
  /\ UNCHANGED <<habits, today, widgetVars, save_error, records, streak>>

NextGateway == GatewaySave \/ GatewayLoad

SpecGateway == InitGateway /\ [][NextGateway]_vars

\* a row with a habit name and a date text that is a valid DD/MM/YYYY date
WellFormed(row) == row[2] # "" /\ strptime(row[1]) # NoDate

\* C6: loading skips each malformed row and keeps the rest: the store returned
\* holds exactly the entries of the well-formed rows.
C6_MalformedRowsSkipped ==
  pc = "gw_rows_loaded" =>
    loaded = LoadLoop(SelectSeq(get_all_records(sheet), WellFormed), 1, <<>>).habits

\* the same habit names and, for each, the same date -> completed mapping
SameStore(a, b) ==
  /\ Keys(a) = Keys(b)
  /\ \A h \in Keys(a) : Entries(Get(a, h)) = Entries(Get(b, h))

\* C7: round trip: a store written to rows with save_data_db and read back
\* with load_data_db is the same store.
C7_RoundTrip == pc = "gw_loaded_back" => SameStore(loaded, habits)

----------------------------------------------------------------------------
(* The script app(): Streamlit runs it from the top on every interaction *)

\* the "Add Habit" branch without its `not in habits` test
add_habit_overwriting(d, name) == IF name # "" THEN Put(d, name, <<>>) ELSE d

\* the "Add Habit" branch: if new_habit and new_habit not in habits
add_habit(d, name) == IF name # "" /\ ~Has(d, name) THEN Put(d, name, <<>>) ELSE d

\* any(dt == today for dt, _ in records)
HasDate(recs, dt) == \E i \in 1..Len(recs) : recs[i][1] = dt

\* the check-in loop over `habits`: a habit without entry for today gets
\* (today, <its checkbox>); a habit with one is left alone
check_in(d, ticked, day) ==
  [i \in 1..Len(d) |->
     [k |-> d[i].k,
      v |-> IF HasDate(d[i].v, day) THEN d[i].v
            ELSE Append(d[i].v, <<day, d[i].k \in ticked>>)]]

RECURSIVE ProjectLoop(_, _, _, _, _)
\* the loop of display_calendar that fills data_dict from the records
ProjectLoop(recs, i, dd, month_num, year) ==
  IF i > Len(recs) THEN dd
  ELSE LET dt == recs[i][1] IN
       IF dt.month = month_num /\ dt.year = year
       THEN ProjectLoop(recs, i + 1, [dd EXCEPT ![dt.day] = recs[i][2]], month_num, year)
       ELSE ProjectLoop(recs, i + 1, dd, month_num, year)

\* data_dict of display_calendar(habits, habit_name, month_num, year)
month_projection(d, habit_name, month_num, year) ==
  ProjectLoop(IF Has(d, habit_name) THEN Get(d, habit_name) ELSE <<>>, 1,
              [k \in 1..get_days_in_month(month_num, year) |-> FALSE],
              month_num, year)

\* the day button's branch: drop the entries dated dt, append (dt, value)
toggle_entry(d, habit_name, dt, value) ==
  Put(d, habit_name,
      Append(SelectSeq(Get(d, habit_name), LAMBDA e : e[1] # dt), <<dt, value>>))

\* date.today() of the session
AppToday == MkDate(2024, 3, 2)

\* the data rows a session's worksheet may start with
AppRows ==
  { <<strftime(AppToday), "Read", "True">>,
    <<strftime(AppToday), "Read", "False">>,
    <<strftime(PrevDay(AppToday)), "Read", "True">>,
    <<strftime(PrevDay(AppToday)), "Run", "True">>,
    <<<<"3", "1", "/", "0", "2", "/", "2", "0", "2", "4">>, "Run", "True">> }

\* the (month, year) pairs the user selects among
MonthChoices == {<<3, 2024>>, <<2, 2023>>}

\* the day buttons the user presses
ClickDays == {1, 29}

Init ==
  /\ \/ sheet = <<>>
     \/ \E rows \in BoundedSeq(AppRows, MaxRows) : sheet = <<Header>> \o rows
  /\ habits = <<>>
  /\ today = AppToday
  /\ pc = "load"
  /\ event = "none"
  /\ connected = TRUE
  /\ clicked_key = <<>>
  /\ new_habit = ""
  /\ checked = {}
  /\ selected_month = <<today.month, today.year>>
  /\ selected_habit = ""
  /\ data_dict = <<>>
  /\ load_error = FALSE
  /\ save_error = FALSE
  /\ last_run_habits = <<>>
  /\ interactions = 0
  /\ records = <<>> /\ streak = 0 /\ loaded = <<>>

\* an interaction reruns the script from the top
Rerun(ev) ==
  /\ pc = "idle"
  /\ interactions < MaxInteractions
  /\ interactions' = interactions + 1
  /\ pc' = "load"
  /\ event' = ev
  /\ last_run_habits' = habits
  /\ UNCHANGED <<sheet, habits, today, connected, data_dict, load_error,
                 save_error, pureVars>>

\* the user types a name (or nothing) and presses "Add Habit"
ClickAddHabit ==
  /\ Rerun("add")
  /\ new_habit' \in Names \cup {""}
  /\ UNCHANGED <<clicked_key, checked, selected_month, selected_habit>>

\* the user ticks or unticks the "Mark as done" checkbox of a habit shown
ToggleCheckbox ==
  /\ Rerun("checkbox")
  /\ \E h \in Keys(habits) :
       checked' = IF h \in checked THEN checked \ {h} ELSE checked \cup {h}
  /\ UNCHANGED <<clicked_key, new_habit, selected_month, selected_habit>>

\* the user picks another month or year
SelectMonthYear ==
  /\ Rerun("select_month")
  /\ selected_month' \in MonthChoices \ {selected_month}
  /\ UNCHANGED <<clicked_key, new_habit, checked, selected_habit>>

\* the user picks another habit in "Select Habit"
SelectHabit ==
  /\ Rerun("select_habit")
  /\ selected_habit' \in Keys(habits) \ {selected_habit}
  /\ UNCHANGED <<clicked_key, new_habit, checked, selected_month>>

\* the user presses a day button of the calendar shown
ClickDay ==
  /\ Rerun("day")
  /\ habits # <<>>
  /\ \E day \in ClickDays \cap DOMAIN data_dict :
       clicked_key' = <<selected_habit, selected_month[1], selected_month[2], day>>
  /\ UNCHANGED <<new_habit, checked, selected_month, selected_habit>>

\* the user presses "Save All Progress"
ClickSave ==
  /\ Rerun("save")
  /\ UNCHANGED <<clicked_key, new_habit, checked, selected_month, selected_habit>>

\* sheet = get_connection(); habits = load_data_db(sheet)
RunLoad ==
  /\ pc = "load"
  /\ \E outcome \in LoadOutcomes :
       /\ outcome = "init_read_fails" => Len(sheet) < MaxSheet
       /\ LET r == load_data_db(sheet, outcome)
          IN /\ habits' = r.habits
             /\ sheet' = r.sheet
             /\ load_error' = r.error
       /\ connected' = (outcome # "no_connection")
  /\ pc' = "add"
  /\ UNCHANGED <<today, event, clicked_key, new_habit, checked, selected_month,
                 selected_habit, data_dict, save_error, last_run_habits,
                 interactions, pureVars>>

\* the sidebar: if st.sidebar.button("Add Habit"): ...
RunAddHabit ==
  /\ pc = "add"
  /\ habits' = IF event = "add" THEN add_habit(habits, new_habit) ELSE habits
  /\ pc' = "checkin"
  /\ UNCHANGED <<sheet, today, widgetVars, load_error, save_error, pureVars>>

\* col1: the check-in loop; a checkbox that is not rendered loses its state
RunCheckIn ==
  /\ pc = "checkin"
  /\ habits' = check_in(habits, checked, today)
  /\ checked' = checked \cap Keys(habits)
  /\ pc' = "calendar"
  /\ UNCHANGED <<sheet, today, event, connected, clicked_key, new_habit,
                 selected_month, selected_habit, data_dict, load_error,
                 save_error, last_run_habits, interactions, pureVars>>

\* col2: the selectbox and display_calendar; a pressed day button toggles
\* the entry and calls st.rerun(), which ends this run and starts the next
RunCalendar ==
  /\ pc = "calendar"
  /\ IF habits = <<>>
     THEN /\ selected_habit' = ""
          /\ data_dict' = <<>>
          /\ pc' = "save"
          /\ UNCHANGED <<habits, event, clicked_key, last_run_habits>>
     ELSE LET habit_name == IF Has(habits, selected_habit) THEN selected_habit
                            ELSE habits[1].k
              month_num == selected_month[1]
              year == selected_month[2]
              dd == month_projection(habits, habit_name, month_num, year)
          IN /\ selected_habit' = habit_name
             /\ IF event = "day" /\ clicked_key[4] \in DOMAIN dd
                   /\ clicked_key = <<habit_name, month_num, year, clicked_key[4]>>
                THEN LET day == clicked_key[4]
                         dt == MkDate(year, month_num, day)
                     IN /\ data_dict' = [dd EXCEPT ![day] = ~dd[day]]
                        /\ habits' = toggle_entry(habits, habit_name, dt, ~dd[day])
                        /\ last_run_habits' = habits'
                        /\ event' = "rerun"
                        /\ clicked_key' = <<>>
                        /\ pc' = "load"
                ELSE /\ data_dict' = dd
                     /\ pc' = "save"
                     /\ UNCHANGED <<habits, event, clicked_key, last_run_habits>>
  /\ UNCHANGED <<sheet, today, connected, new_habit, checked, selected_month,
                 load_error, save_error, interactions, pureVars>>

\* if st.button("Save All Progress"): save_data_db(sheet, habits)
RunSave ==
  /\ pc = "save"
  /\ IF event = "save"
     THEN \E n \in 0..SaveCalls(habits) :
            /\ connected \/ n = 0
            /\ LET r == save_data_db(sheet, habits, n)
               IN sheet' = r.sheet /\ save_error' = r.error
     ELSE sheet' = sheet /\ save_error' = FALSE
  /\ pc' = "idle"
  /\ clicked_key' = <<>>
  /\ UNCHANGED <<habits, today, event, connected, new_habit, checked,
                 selected_month, selected_habit, data_dict, load_error,
                 last_run_habits, interactions, pureVars>>

Next ==
  \/ ClickAddHabit \/ ToggleCheckbox \/ SelectMonthYear \/ SelectHabit
  \/ ClickDay \/ ClickSave
  \/ RunLoad \/ RunAddHabit \/ RunCheckIn \/ RunCalendar \/ RunSave

Spec == Init /\ [][Next]_vars

----------------------------------------------------------------------------
(* Properties of the session *)

\* C3: in every state of the in-memory store, after any sequence of loads,
\* add-habit, check-in and calendar toggle operations, no habit holds two
\* entries for the same date.
C3_NoDuplicateDates == \A i \in 1..Len(habits) : UniqueDates(habits[i].v)

\* the completed values the store holds for habit h on date dt
EntryValues(d, h, dt) == {e[2] : e \in {x \in Entries(Get(d, h)) : x[1] = dt}}

\* C4: every write of (habit, date, value) replaces any entry of that date:
\* right after the check-in of a habit marked done its entry for today is
\* completed, and right after a calendar toggle the entry of the toggled
\* date has the toggled value.
C4_WriteReplaces ==
  [][ /\ pc = "checkin" =>
           \A h \in Keys(habits) \cap checked : EntryValues(habits', h, today) = {TRUE}
      /\ (pc = "calendar" /\ pc' = "load") =>
           EntryValues(habits', selected_habit',
                       MkDate(clicked_key[3], clicked_key[2], clicked_key[4]))
             = {data_dict'[clicked_key[4]]} ]_vars

\* every habit of store a is in store b, and so is an entry for every date
\* a habit of a has an entry for
Keeps(a, b) ==
  \A h \in Keys(a) :
    /\ Has(b, h)
    /\ \A e \in Entries(Get(a, h)) : HasDate(Get(b, h), e[1])

\* C5: the store is loaded at session start only and nothing in it is
\* implicitly deleted: when a script run whose load reported no error
\* reaches the save button, every habit and every dated entry the store held
\* when the previous run ended is still in it, so that a save writes them.
C5_NothingDeleted ==
  (pc = "save" /\ ~load_error) => Keeps(last_run_habits, habits)

\* C8: a failed save loses nothing: save_data_db leaves `habits` as it is,
\* and the retry of a failed save, when its load reports no error and it
\* succeeds, writes every row of the full store the failed save was given.
C8_FailedSaveLosesNothing ==
  [][ /\ pc = "save" => habits' = habits
      /\ (pc = "save" /\ event = "save" /\ save_error /\ ~load_error /\ ~save_error') =>
           Entries(<<Header>> \o AllRows(last_run_habits)) \subseteq Entries(sheet') ]_vars

\* C9: "Add Habit" with an empty name or a name already in the store changes
\* nothing; with a new name it adds that habit with no entries and leaves
\* every other habit as it was.
C9_AddHabit ==
  [][ (pc = "add" /\ event = "add") =>
        IF new_habit = "" \/ Has(habits, new_habit)
        THEN habits' = habits
        ELSE /\ Keys(habits') = Keys(habits) \cup {new_habit}
             /\ Get(habits', new_habit) = <<>>
             /\ \A h \in Keys(habits) : Get(habits', h) = Get(habits, h) ]_vars

\* "Add Habit" was pressed with the name of a habit that has entries, and the
\* habit still has them
C9_Witness ==
  /\ pc = "checkin" /\ event = "add"
  /\ Has(habits, new_habit)
  /\ Get(habits, new_habit) # <<>>

\* days of a month by the Gregorian rule
GregorianDays(m, y) ==
  CASE m \in {1, 3, 5, 7, 8, 10, 12} -> 31
    [] m \in {4, 6, 9, 11} -> 30
    [] OTHER -> IF (y % 4 = 0 /\ y % 100 # 0) \/ y % 400 = 0 THEN 29 ELSE 28

\* C10: the month projection has one value per day 1..daysInMonth(month,
\* year), and the value of day k is completed exactly when the store holds
\* an entry of the selected habit for that date marked completed.
C10_MonthProjection ==
  (pc = "save" /\ habits # <<>>) =>
    LET m == selected_month[1]
        y == selected_month[2]
    IN /\ DOMAIN data_dict = 1..GregorianDays(m, y)
       /\ \A k \in DOMAIN data_dict :
            data_dict[k] = (<<MkDate(y, m, k), TRUE>> \in Entries(Get(habits, selected_habit)))

====
